---- MODULE Spec2Model ----
(***************************************************************************)
(* Model of the telemetry pipeline of Agentic-Logs-Analyzer:               *)
(*   scheduler.Scheduler (Start, Stop, run, executeCycle),                 *)
(*   metrics.AggregateMetrics, detectors.CPUSpikeDetector and              *)
(*   events.Publisher.Publish.                                             *)
(*                                                                         *)
(* Go strings that the code formats or splits are sequences of one-        *)
(* character strings, so that Sprintf, strings.Split and HasPrefix are     *)
(* computed; strings that are only copied are TLA+ strings.  A float64     *)
(* quantity (sample, threshold) is an integer counting hundredths, so that *)
(* 50.01 is 5001; a mean is kept as the pair (sum, count) and compared by  *)
(* cross-multiplication.  The samples used have sums that float64 holds    *)
(* exactly or means away from every cutoff, so the only rounding that      *)
(* decides a comparison is that of the product threshold*1.1.              *)
(***************************************************************************)
EXTENDS Integers, Sequences, FiniteSets, TLC

VARIABLES
    cancelled,     \* s.ctx is done (s.cancel() has been called)
    wg,            \* counter of s.wg
    mainPc,        \* the caller of Start/Stop: "ready", or "waiting" inside Stop's wg.Wait()
    starts,        \* number of Start() calls made
    stops,         \* number of Stop() calls made
    lastCall,      \* the last call that returned: "none", "Start" or "Stop"
    wpc,           \* per goroutine spawned by Start: position in run()
    tick,          \* per goroutine: a value is buffered in its ticker.C (capacity 1)
    failedBefore,  \* per goroutine: an earlier cycle of it had a collector or publish failure
    frames,        \* activations of executeCycle (locals of one call)
    stopCase,      \* what the latest Stop() found when it cancelled: "incycle", "idle", "noworker"
    probe          \* input and result of one call of a pure function

vars == <<cancelled, wg, mainPc, starts, stops, lastCall, wpc, tick, failedBefore, frames,
         stopCase, probe>>

----------------------------------------------------------------------------
(* Bounds of the model *)

MaxStarts == 2       \* Start() calls explored (one goroutine each)
MaxStops == 2        \* Stop() calls explored
NumCollectors == 2   \* length of s.collectors
NumDetectors == 2    \* length of s.detectors
MaxFrames == 2       \* executeCycle activations that can be live at once

(* Program constants *)

DetectorThreshold == 600   \* detectors.NewCPUSpikeDetector(600)
CfgCPUThreshold == 50      \* Config.CPUThreshold, default of CPU_THRESHOLD
StatusOKLow == 200         \* resp.StatusCode < 200
StatusOKHigh == 300        \* resp.StatusCode >= 300

Workers == 1..MaxStarts
FrameIds == 1..MaxFrames

\* the float64 value x (a whole number) in hundredths
Fixed(x) == 100 * x

----------------------------------------------------------------------------
(* Strings as character sequences *)

Colon == ":"
StrCpu == <<"c", "p", "u">>
StrDefault == <<"d", "e", "f">>
StrEmpty == <<>>
StrUnknown == <<"u", "n", "k", "n", "o", "w", "n">>
CpuPrefix == <<"c", "p", "u", ":">>

\* strings.HasPrefix
HasPrefix(s, p) == Len(s) >= Len(p) /\ SubSeq(s, 1, Len(p)) = p

\* strings.Split(s, ":")
RECURSIVE Split(_)
Split(s) ==
    IF \E k \in 1..Len(s) : s[k] = Colon
    THEN LET k == CHOOSE n \in 1..Len(s) :
                      s[n] = Colon /\ \A m \in 1..(n - 1) : s[m] # Colon
         IN <<SubSeq(s, 1, k - 1)>> \o Split(SubSeq(s, k + 1, Len(s)))
    ELSE <<s>>

----------------------------------------------------------------------------
(* metrics.AggregateMetrics *)

\* fmt.Sprintf("%s:%s:%s", ...) / fmt.Sprintf("%s:%s", ...)
buildMetricKey(m) ==
    IF m.Namespace # StrEmpty
    THEN m.Type \o <<Colon>> \o m.Namespace \o <<Colon>> \o m.Resource
    ELSE m.Type \o <<Colon>> \o m.Resource

\* aggregated := make(map[string][]float64); labels := make(map[string]string):
\* both maps are allocated (not nil) and empty
EmptyInput ==
    [Metrics |-> [k \in {} |-> <<>>], Labels |-> [k \in {} |-> ""],
     MetricsMade |-> TRUE, LabelsMade |-> TRUE]

\* one iteration of the loop over metrics
AggregateStepOverwrite(acc, m) ==
    LET key == buildMetricKey(m)
    IN [acc EXCEPT
           !.Metrics = [k \in DOMAIN acc.Metrics \cup {key} |->
                           IF k = key THEN <<m.Value>> ELSE acc.Metrics[k]],
           !.Labels = [k \in DOMAIN acc.Labels \cup DOMAIN m.Labels |->
                          IF k \in DOMAIN m.Labels THEN m.Labels[k] ELSE acc.Labels[k]]]

AggregateStepFirstWins(acc, m) ==
    LET key == buildMetricKey(m)
        old == IF key \in DOMAIN acc.Metrics THEN acc.Metrics[key] ELSE <<>>
    IN [acc EXCEPT
           !.Metrics = [k \in DOMAIN acc.Metrics \cup {key} |->
                           IF k = key THEN Append(old, m.Value) ELSE acc.Metrics[k]],
           !.Labels = [k \in DOMAIN acc.Labels \cup DOMAIN m.Labels |->
                          IF k \in DOMAIN acc.Labels THEN acc.Labels[k] ELSE m.Labels[k]]]

AggregateStep(acc, m) ==
    LET key == buildMetricKey(m)
        old == IF key \in DOMAIN acc.Metrics THEN acc.Metrics[key] ELSE <<>>
    IN [acc EXCEPT
           !.Metrics = [k \in DOMAIN acc.Metrics \cup {key} |->
                           IF k = key THEN Append(old, m.Value) ELSE acc.Metrics[k]],
           !.Labels = [k \in DOMAIN acc.Labels \cup DOMAIN m.Labels |->
                          IF k \in DOMAIN m.Labels THEN m.Labels[k] ELSE acc.Labels[k]]]

RECURSIVE AggregateFrom(_, _)
AggregateFrom(acc, ms) ==
    IF ms = <<>> THEN acc ELSE AggregateFrom(AggregateStep(acc, Head(ms)), Tail(ms))

AggregateMetrics(ms) == AggregateFrom(EmptyInput, ms)

----------------------------------------------------------------------------
(* detectors.CPUSpikeDetector *)

RECURSIVE SumSeq(_)
SumSeq(s) == IF s = <<>> THEN 0 ELSE Head(s) + SumSeq(Tail(s))

\* average(values) as the fraction num/den (0/1 for an empty sequence)
average(values) ==
    IF Len(values) = 0 THEN [num |-> 0, den |-> 1]
    ELSE [num |-> SumSeq(values), den |-> Len(values)]

parseKeyAtLeast3(key) ==
    LET parts == Split(key)
    IN IF Len(parts) >= 3 THEN <<parts[2], parts[3]>>
       ELSE IF Len(parts) = 2 THEN <<StrEmpty, parts[2]>>
       ELSE <<StrEmpty, StrUnknown>>

parseKey(key) ==
    LET parts == Split(key)
    IN IF Len(parts) = 3 THEN <<parts[2], parts[3]>>
       ELSE IF Len(parts) = 2 THEN <<StrEmpty, parts[2]>>
       ELSE <<StrEmpty, StrUnknown>>

\* float64 product threshold*1.1 is rounded above the exact product for these
\* thresholds (50*1.1 = 55.00000000000001, 100*1.1 = 110.00000000000001), so a
\* mean equal to the exact product is below the cutoff.
RoundsAbove11 == {Fixed(50), Fixed(100)}

\* avg >= threshold * (tenths/10), avg = a.num/a.den
AtLeast(a, threshold, tenths) ==
    IF tenths = 11 /\ threshold \in RoundsAbove11
    THEN 10 * a.num > tenths * threshold * a.den
    ELSE 10 * a.num >= tenths * threshold * a.den

ClassifySeverity(a, threshold) ==
    IF AtLeast(a, threshold, 15) THEN "critical"
    ELSE IF AtLeast(a, threshold, 12) THEN "high"
    ELSE IF AtLeast(a, threshold, 11) THEN "medium"
    ELSE "low"

NoSignal == [ok |-> FALSE, Type |-> "", Severity |-> "", Namespace |-> StrEmpty,
             Resource |-> StrEmpty]

\* keys for which the loop body of Detect returns a signal
BreachingInclusive(input, threshold) ==
    {key \in DOMAIN input.Metrics :
        /\ HasPrefix(key, CpuPrefix)
        /\ LET a == average(input.Metrics[key]) IN a.num >= threshold * a.den}

Breaching(input, threshold) ==
    {key \in DOMAIN input.Metrics :
        /\ HasPrefix(key, CpuPrefix)
        /\ LET a == average(input.Metrics[key]) IN a.num > threshold * a.den}

SignalFor(input, threshold, key) ==
    [ok |-> TRUE, Type |-> "cpu_spike",
     Severity |-> ClassifySeverity(average(input.Metrics[key]), threshold),
     Namespace |-> parseKey(key)[1], Resource |-> parseKey(key)[2]]

\* Detect ranges over a Go map, whose iteration order is unspecified: the first
\* breaching key met can be any breaching key.
Detect(input, threshold) ==
    IF Breaching(input, threshold) = {} THEN {NoSignal}
    ELSE {SignalFor(input, threshold, key) : key \in Breaching(input, threshold)}

----------------------------------------------------------------------------
(* events.Publisher.Publish *)

\* what p.client.Do(req) ends with
TransportCauses == {"timeout", "canceled"}
Statuses == {200, 500}
Outcome(kind, cause, status, json) ==
    [kind |-> kind, cause |-> cause, status |-> status, json |-> json]
Outcomes(S) ==
    {Outcome("transport", c, 0, FALSE) : c \in TransportCauses}
        \cup {Outcome("response", "", s, b) : s \in S, b \in BOOLEAN}

NilError == [err |-> "nil", code |-> 0]

\* the statements of Publish after p.client.Do
PublishResultBadRange(o) ==
    IF o.kind = "transport" THEN [err |-> "transport", code |-> 0]
    ELSE IF o.status < StatusOKLow \/ o.status > StatusOKHigh
         THEN [err |-> "status", code |-> o.status]
         ELSE NilError

PublishResult(o) ==
    IF o.kind = "transport" THEN [err |-> "transport", code |-> 0]
    ELSE IF o.status < StatusOKLow \/ o.status >= StatusOKHigh
         THEN [err |-> "status", code |-> o.status]
         ELSE NilError

----------------------------------------------------------------------------
(* What the collaborators can return *)

Metric(type, ns, res, value, labels) ==
    [Type |-> type, Namespace |-> ns, Resource |-> res, Value |-> value, Labels |-> labels]

\* what collector c can report: a pod (namespaced for odd c, without namespace
\* for even c) at 900 millicores, above the registered threshold, or at 100
\* millicores, below it
Digits == <<"1", "2", "3", "4", "5", "6", "7", "8", "9">>
Sample(c, millicores) ==
    Metric(StrCpu, IF c % 2 = 1 THEN StrDefault ELSE StrEmpty, <<"r", Digits[c]>>,
           Fixed(millicores), [app |-> "pod"])

\* collector.Collect(s.ctx): (collected, err); a failing collector may still
\* hand back what it had collected
CollectReturns(c) ==
    {[err |-> TRUE, metrics |-> <<Sample(c, 900)>>],
     [err |-> FALSE, metrics |-> <<>>],
     [err |-> FALSE, metrics |-> <<Sample(c, 900)>>],
     [err |-> FALSE, metrics |-> <<Sample(c, 100)>>]}

\* p.client.Do(req) with a request bound to s.ctx: a context that is already
\* done when the call is made fails the call; one that becomes done while the
\* exchange is in flight can abort it.
DoOutcomes(pre, done) ==
    IF pre THEN {Outcome("transport", "canceled", 0, FALSE)}
    ELSE {o \in Outcomes(Statuses) : o.cause = "canceled" => done}

----------------------------------------------------------------------------
(* scheduler.Scheduler *)

FreeFrame ==
    [st |-> "free", owner |-> 0, i |-> 0, calls |-> <<>>, all |-> <<>>,
     aggregated |-> FALSE, input |-> EmptyInput, j |-> 0, evals |-> <<>>,
     pubCalls |-> <<>>, posts |-> 0, hit |-> FALSE, sig |-> NoSignal, pre |-> FALSE, resp |-> Outcome("", "", 0, FALSE), err |-> NilError]

\* executeCycle entered by goroutine w: var allMetrics []metrics.Metric
NewFrameStale(w) ==
    [FreeFrame EXCEPT !.st = "collect", !.owner = w, !.i = 1, !.all = <<Sample(1, 900)>>]
NewFrame(w) == [FreeFrame EXCEPT !.st = "collect", !.owner = w, !.i = 1]

Live(f) == frames[f].st # "free"
LiveFrames == {f \in FrameIds : Live(f)}
FramesOf(w) == {f \in FrameIds : Live(f) /\ frames[f].owner = w}
Running(w) == wpc[w] \in {"spawned", "select", "incycle"}

\* a collector or a publish of this activation failed
Failed(fr) ==
    \/ \E k \in 1..Len(fr.calls) : fr.calls[k].r.err
    \/ \E k \in 1..Len(fr.evals) : fr.evals[k].out = "fail"

\* wg.Add(1)
WgAdd(n) == n + 1

\* defer s.wg.Done()
WgDoneMissing(n) == n
WgDone(n) == n - 1

\* s.wg.Wait() returns
WgWaitSkipped(n) == TRUE
WgWaitReturns(n) == n = 0

\* case <-ticker.C: s.executeCycle() is a synchronous call: run() continues
\* only when it returns
AfterTickPcAsync == "select"
AfterTickPc == "incycle"

\* return from executeCycle into the loop of run()
ResumePcFatal(pc, failed) ==
    IF failed THEN "exited" ELSE IF pc = "incycle" THEN "select" ELSE pc
ResumePc(pc, failed) == IF pc = "incycle" THEN "select" ELSE pc

\* if err != nil { log; continue }  /  allMetrics = append(allMetrics, collected...)
AccumulateAlways(all, r) == all \o r.metrics
Accumulate(all, r) == IF r.err THEN all ELSE all \o r.metrics

NextCollectorStopOnError(i, r) == IF r.err THEN NumCollectors + 1 ELSE i + 1
NextCollector(i, r) == i + 1

\* if len(allMetrics) == 0 { return }
IsEmptyCycleNever(all) == FALSE
IsEmptyCycle(all) == Len(all) = 0

\* if err != nil { log; continue }: the loop goes on to the next detector
NextDetectorStopOnError(j, e) == IF e.err # "nil" THEN NumDetectors + 1 ELSE j + 1
NextDetectorAgain(j, e) == IF e.err = "nil" THEN j ELSE j + 1
NextDetector(j, e) == j + 1

\* for _, detectors := range s.detectors: a slice is ranged from its first
\* element, the detector registered first
FirstDetectorLast == NumDetectors
FirstDetector == 1

DetectSt(j) == IF j > NumDetectors THEN "finish" ELSE "detect"

\* executeCycle reads s.ctx only to pass it on: between two steps there is no
\* select on s.ctx.Done() and no s.ctx.Err() test, so the step that follows
\* does not depend on whether the context is done
AfterStepChecked(st, done) == IF done THEN "ended" ELSE st
AfterStep(st, done) == st

\* the log line executeCycle writes after Publish returned e
PublishLogSilent(e) == IF e.err = "nil" THEN "ok" ELSE "none"

PublishLog(e) == IF e.err = "nil" THEN "ok" ELSE "fail"

\* Publish after p.client.Do(req): every path returns, none calls Do again
AfterDoRetry(o) == IF o.kind = "transport" THEN "publishing" ELSE "published"
AfterDo(o) == "published"

----------------------------------------------------------------------------
Init ==
    /\ cancelled = FALSE
    /\ wg = 0
    /\ mainPc = "ready"
    /\ starts = 0
    /\ stops = 0
    /\ lastCall = "none"
    /\ wpc = [w \in Workers |-> "unborn"]
    /\ tick = [w \in Workers |-> FALSE]
    /\ failedBefore = [w \in Workers |-> FALSE]
    /\ frames = [f \in FrameIds |-> FreeFrame]
    /\ stopCase = "none"
    /\ probe = [fn |-> "none"]

\* s.ctx and s.cancel are set in New only: Start() spawns run() on the context
\* the scheduler already has
CtxAtStartRenewed(done) == FALSE
CtxAtStart(done) == done

\* Scheduler.Start: s.wg.Add(1); go s.run()
Start ==
    /\ mainPc = "ready"
    /\ starts < MaxStarts
    /\ starts' = starts + 1
    /\ wg' = WgAdd(wg)
    /\ wpc' = [wpc EXCEPT ![starts + 1] = "spawned"]
    /\ lastCall' = "Start"
    /\ cancelled' = CtxAtStart(cancelled)
    /\ UNCHANGED <<mainPc, stops, tick, failedBefore, frames, stopCase, probe>>

\* Scheduler.Stop up to s.wg.Wait(): s.cancel()
StopCancel ==
    /\ mainPc = "ready"
    /\ stops < MaxStops
    /\ stops' = stops + 1
    /\ cancelled' = TRUE
    /\ mainPc' = "waiting"
    /\ stopCase' = IF LiveFrames # {} THEN "incycle"
                   ELSE IF \E w \in Workers : Running(w) THEN "idle"
                   ELSE "noworker"
    /\ frames' = [f \in FrameIds |->
                      IF Live(f) THEN [frames[f] EXCEPT !.hit = TRUE] ELSE frames[f]]
    /\ UNCHANGED <<wg, starts, lastCall, wpc, tick, failedBefore, probe>>

\* Scheduler.Stop: s.wg.Wait() returns, Stop returns
StopReturn ==
    /\ mainPc = "waiting"
    /\ WgWaitReturns(wg)
    /\ mainPc' = "ready"
    /\ lastCall' = "Stop"
    /\ UNCHANGED <<cancelled, wg, starts, stops, wpc, tick, failedBefore, frames, stopCase, probe>>

\* run(): defer s.wg.Done(); ticker := time.NewTicker(...); defer ticker.Stop()
RunBegin(w) ==
    /\ wpc[w] = "spawned"
    /\ wpc' = [wpc EXCEPT ![w] = "select"]
    /\ UNCHANGED <<cancelled, wg, mainPc, starts, stops, lastCall, tick, failedBefore, frames, stopCase, probe>>

\* the runtime timer sends on ticker.C (capacity 1); a send on a full channel is dropped
Tick(w) ==
    /\ wpc[w] \in {"select", "incycle"}
    /\ ~tick[w]
    /\ tick' = [tick EXCEPT ![w] = TRUE]
    /\ UNCHANGED <<cancelled, wg, mainPc, starts, stops, lastCall, wpc, failedBefore, frames, stopCase, probe>>

\* run(): case <-s.ctx.Done(): return (the deferred ticker.Stop() and wg.Done() run)
SelectDone(w) ==
    /\ wpc[w] = "select"
    /\ cancelled
    /\ wpc' = [wpc EXCEPT ![w] = "exited"]
    /\ tick' = [tick EXCEPT ![w] = FALSE]
    /\ wg' = WgDone(wg)
    /\ UNCHANGED <<cancelled, mainPc, starts, stops, lastCall, failedBefore, frames, stopCase, probe>>

\* run(): case <-ticker.C: s.executeCycle()
SelectTick(w) ==
    /\ wpc[w] = "select"
    /\ tick[w]
    /\ \E f \in FrameIds :
          /\ ~Live(f)
          /\ \A g \in FrameIds : g < f => Live(g)
          /\ frames' = [frames EXCEPT ![f] = NewFrame(w)]
    /\ tick' = [tick EXCEPT ![w] = FALSE]
    /\ wpc' = [wpc EXCEPT ![w] = AfterTickPc]
    /\ UNCHANGED <<cancelled, wg, mainPc, starts, stops, lastCall, failedBefore, stopCase, probe>>

\* executeCycle: one iteration of the loop over s.collectors
Collect(f) ==
    /\ frames[f].st = "collect"
    /\ \E r \in CollectReturns(frames[f].i) :
          LET fr == frames[f]
              n == NextCollector(fr.i, r)
          IN frames' = [frames EXCEPT ![f] =
                 [fr EXCEPT !.calls = Append(fr.calls, [c |-> fr.i, r |-> r]),
                            !.all = Accumulate(fr.all, r),
                            !.i = n,
                            !.st = AfterStep(IF n > NumCollectors THEN "check" ELSE "collect",
                                             cancelled)]]
    /\ UNCHANGED <<cancelled, wg, mainPc, starts, stops, lastCall, wpc, tick, failedBefore, stopCase, probe>>

\* executeCycle: the test for an empty cycle, then metrics.AggregateMetrics(allMetrics)
Check(f) ==
    /\ frames[f].st = "check"
    /\ LET fr == frames[f]
       IN frames' = [frames EXCEPT ![f] =
              IF IsEmptyCycle(fr.all)
              THEN [fr EXCEPT !.st = "ended"]
              ELSE [fr EXCEPT !.aggregated = TRUE,
                              !.input = AggregateMetrics(fr.all),
                              !.j = FirstDetector,
                              !.st = AfterStep(DetectSt(FirstDetector), cancelled)]]
    /\ UNCHANGED <<cancelled, wg, mainPc, starts, stops, lastCall, wpc, tick, failedBefore, stopCase, probe>>

\* executeCycle: detectors.Detect(AggregatedMetrics); on a match Publish is called
\* and runs up to its one p.client.Do(req)
DetectStep(f) ==
    /\ frames[f].st = "detect"
    /\ \E s \in Detect(frames[f].input, Fixed(DetectorThreshold)) :
          LET fr == frames[f]
          IN frames' = [frames EXCEPT ![f] =
                 IF ~s.ok
                 THEN [fr EXCEPT !.evals = Append(fr.evals, [d |-> fr.j, out |-> "nomatch"]),
                                 !.j = fr.j + 1,
                                 !.st = AfterStep(DetectSt(fr.j + 1), cancelled)]
                 ELSE [fr EXCEPT !.sig = s, !.pre = cancelled, !.st = "publishing",
                                 !.pubCalls = Append(fr.pubCalls, fr.j), !.posts = 1]]
    /\ UNCHANGED <<cancelled, wg, mainPc, starts, stops, lastCall, wpc, tick, failedBefore, stopCase, probe>>

\* Publisher.Publish: p.client.Do(req) ends, Publish returns
PublishReturn(f) ==
    /\ frames[f].st = "publishing"
    /\ \E o \in DoOutcomes(frames[f].pre, cancelled) :
          frames' = [frames EXCEPT ![f] =
              IF AfterDo(o) = "published"
              THEN [frames[f] EXCEPT !.resp = o, !.err = PublishResult(o), !.st = "published"]
              ELSE [frames[f] EXCEPT !.posts = @ + 1]]
    /\ UNCHANGED <<cancelled, wg, mainPc, starts, stops, lastCall, wpc, tick, failedBefore, stopCase, probe>>

\* executeCycle: the error test and the logs after Publish
HandlePublish(f) ==
    /\ frames[f].st = "published"
    /\ LET fr == frames[f]
           n == NextDetector(fr.j, fr.err)
       IN frames' = [frames EXCEPT ![f] =
              [fr EXCEPT !.evals = Append(fr.evals,
                              [d |-> fr.j, out |-> PublishLog(fr.err)]),
                         !.j = n,
                         !.st = AfterStep(DetectSt(n), cancelled),
                         !.posts = 0, !.sig = NoSignal, !.pre = FALSE,
                         !.resp = FreeFrame.resp, !.err = NilError]]
    /\ UNCHANGED <<cancelled, wg, mainPc, starts, stops, lastCall, wpc, tick, failedBefore, stopCase, probe>>

\* executeCycle: elapsed := time.Since(start); log
Finish(f) ==
    /\ frames[f].st = "finish"
    /\ frames' = [frames EXCEPT ![f].st = "ended"]
    /\ UNCHANGED <<cancelled, wg, mainPc, starts, stops, lastCall, wpc, tick, failedBefore, stopCase, probe>>

\* executeCycle returns to run()
CycleReturn(f) ==
    /\ frames[f].st = "ended"
    /\ LET w == frames[f].owner
       IN /\ wpc' = [wpc EXCEPT ![w] = ResumePc(wpc[w], Failed(frames[f]))]
          /\ failedBefore' = [failedBefore EXCEPT ![w] = @ \/ Failed(frames[f])]
    /\ frames' = [frames EXCEPT ![f] = FreeFrame]
    /\ UNCHANGED <<cancelled, wg, mainPc, starts, stops, lastCall, tick, stopCase, probe>>

Next ==
    \/ Start
    \/ StopCancel
    \/ StopReturn
    \/ \E w \in Workers : RunBegin(w)
    \/ \E w \in Workers : Tick(w)
    \/ \E w \in Workers : SelectDone(w)
    \/ \E w \in Workers : SelectTick(w)
    \/ \E f \in FrameIds : Collect(f)
    \/ \E f \in FrameIds : Check(f)
    \/ \E f \in FrameIds : DetectStep(f)
    \/ \E f \in FrameIds : PublishReturn(f)
    \/ \E f \in FrameIds : HandlePublish(f)
    \/ \E f \in FrameIds : Finish(f)
    \/ \E f \in FrameIds : CycleReturn(f)

Spec == Init /\ [][Next]_vars

\* a scheduler on which Start() is called at most once
StartOnce == starts = 0 /\ Start

NextOnce ==
    \/ StartOnce
    \/ StopCancel
    \/ StopReturn
    \/ \E w \in Workers : RunBegin(w)
    \/ \E w \in Workers : Tick(w)
    \/ \E w \in Workers : SelectDone(w)
    \/ \E w \in Workers : SelectTick(w)
    \/ \E f \in FrameIds : Collect(f)
    \/ \E f \in FrameIds : Check(f)
    \/ \E f \in FrameIds : DetectStep(f)
    \/ \E f \in FrameIds : PublishReturn(f)
    \/ \E f \in FrameIds : HandlePublish(f)
    \/ \E f \in FrameIds : Finish(f)
    \/ \E f \in FrameIds : CycleReturn(f)

SpecOnce == Init /\ [][NextOnce]_vars

\* a scheduler on which Start() is called up to MaxStarts times and Stop() is
\* not called: every worker runs its cycles to the end
NextStarts ==
    \/ Start
    \/ \E w \in Workers : RunBegin(w)
    \/ \E w \in Workers : Tick(w)
    \/ \E w \in Workers : SelectTick(w)
    \/ \E f \in FrameIds : Collect(f)
    \/ \E f \in FrameIds : Check(f)
    \/ \E f \in FrameIds : DetectStep(f)
    \/ \E f \in FrameIds : PublishReturn(f)
    \/ \E f \in FrameIds : HandlePublish(f)
    \/ \E f \in FrameIds : Finish(f)
    \/ \E f \in FrameIds : CycleReturn(f)

SpecStarts == Init /\ [][NextStarts]_vars

\* what the Go runtime and the claim's premises guarantee: a runnable goroutine
\* runs, every Collect and Publish call returns, and a select with several
\* ready cases picks each of them again and again (a uniform pseudo-random
\* choice), so the Done case is not passed over forever
FairOnce ==
    /\ SpecOnce
    /\ WF_vars(StopReturn)
    /\ \A w \in Workers : WF_vars(RunBegin(w)) /\ SF_vars(SelectDone(w))
    /\ \A f \in FrameIds :
          /\ WF_vars(Collect(f))
          /\ WF_vars(Check(f))
          /\ WF_vars(DetectStep(f))
          /\ WF_vars(PublishReturn(f))
          /\ WF_vars(HandlePublish(f))
          /\ WF_vars(Finish(f))
          /\ WF_vars(CycleReturn(f))

----------------------------------------------------------------------------
(* Publish as a function of what the HTTP exchange ends with *)

StatusMargin == 60
ProbeStatuses == (StatusOKLow - StatusMargin)..(StatusOKHigh + StatusMargin)

PublishProbe ==
    /\ \E o \in Outcomes(ProbeStatuses) :
          probe' = [fn |-> "Publish", in |-> o, out |-> PublishResult(o)]
    /\ UNCHANGED <<cancelled, wg, mainPc, starts, stops, lastCall, wpc, tick, failedBefore,
                   frames, stopCase>>

NextPublish == PublishProbe

PubSpec == Init /\ [][NextPublish]_vars

----------------------------------------------------------------------------
(* The aggregator and the detector as functions of their arguments *)

MaxKeys == 2        \* keys of a SignalInput handed to Detect
MaxKeyLen == 4      \* characters of a key handed to parseKey
MaxMetrics == 3     \* metrics handed to AggregateMetrics
SevRadius == 20     \* hundredths explored on each side of a severity cutoff

UnchangedScheduler ==
    UNCHANGED <<cancelled, wg, mainPc, starts, stops, lastCall, wpc, tick, failedBefore,
                frames, stopCase>>

KeyCpuDefNgx == <<"c", "p", "u", ":", "d", "e", "f", ":", "n", "g", "x">>
KeyCpuApi == <<"c", "p", "u", ":", "a", "p", "i">>
KeyMemDefNgx == <<"m", "e", "m", ":", "d", "e", "f", ":", "n", "g", "x">>
KeyCpuBare == <<"c", "p", "u">>
KeyCpuFour == <<"c", "p", "u", ":", "a", ":", "b", ":", "c">>
DetKeys == {KeyCpuDefNgx, KeyCpuApi, KeyMemDefNgx, KeyCpuBare, KeyCpuFour}

\* no sample; 50; 40 and 60 (mean 50); 50.01; 95.2, 96.1, 94.8; 700
DetValues ==
    {<<>>, <<Fixed(50)>>, <<Fixed(40), Fixed(60)>>, <<5001>>, <<9520, 9610, 9480>>,
     <<Fixed(700)>>}
DetThresholds == {Fixed(CfgCPUThreshold), Fixed(DetectorThreshold)}

\* two calls of d.Detect(input) on the same input
DetectProbe ==
    /\ probe.fn = "none"
    /\ \E K \in SUBSET DetKeys :
          /\ Cardinality(K) <= MaxKeys
          /\ \E ms \in [K -> DetValues], t \in DetThresholds :
                LET input == [EmptyInput EXCEPT !.Metrics = ms]
                IN \E s1, s2 \in Detect(input, t) :
                      probe' = [fn |-> "Detect", in |-> [input |-> input, threshold |-> t],
                                out |-> s1, again |-> s2]
    /\ UnchangedScheduler

SevThresholds == {Fixed(CfgCPUThreshold), Fixed(100), Fixed(DetectorThreshold)}
\* means next to each cutoff, and the means 80 and 95 where above the threshold
SevMeans(t) ==
    {t + 1} \cup UNION {((c * t) \div 10 - SevRadius)..((c * t) \div 10 + SevRadius) :
                           c \in {11, 12, 15}}
            \cup {m \in {Fixed(80), Fixed(95)} : m > t}

\* ClassifySeverity(avg, threshold) for a mean above the threshold
ClassifyProbe ==
    /\ probe.fn = "none"
    /\ \E t \in SevThresholds : \E m \in SevMeans(t) :
          probe' = [fn |-> "ClassifySeverity", in |-> [mean |-> m, threshold |-> t],
                    out |-> ClassifySeverity([num |-> m, den |-> 1], t)]
    /\ UnchangedScheduler

KeyAlphabet == {"a", "b", Colon}
KeysUpTo(n) == UNION {[1..k -> KeyAlphabet] : k \in 0..n}

ParseKeyProbe ==
    /\ probe.fn = "none"
    /\ \E key \in KeysUpTo(MaxKeyLen) :
          probe' = [fn |-> "parseKey", in |-> key, out |-> parseKey(key)]
    /\ UnchangedScheduler

\* metrics of kind cpu: resource b without namespace, resource b in namespace
\* a, resource a:b without namespace; values 1 and 2; three label maps
AggNames == {<<StrEmpty, <<"b">>>>, <<<<"a">>, <<"b">>>>, <<StrEmpty, <<"a", Colon, "b">>>>}
AggLabels == {[k \in {} |-> ""], [app |-> "x"], [app |-> "y", tier |-> "z"]}
AggMetrics ==
    {Metric(StrCpu, n[1], n[2], v, l) : n \in AggNames, v \in {1, 2}, l \in AggLabels}

AggregateProbe ==
    /\ probe.fn = "none"
    /\ \E k \in 0..MaxMetrics : \E ms \in [1..k -> AggMetrics] :
          probe' = [fn |-> "AggregateMetrics", in |-> ms, out |-> AggregateMetrics(ms)]
    /\ UnchangedScheduler

\* the key of a metric as the aggregator builds it, parsed as the detector
\* parses it
RoundTripProbe ==
    /\ probe.fn = "none"
    /\ \E m \in AggMetrics :
          probe' = [fn |-> "parseKey(buildMetricKey)", in |-> m,
                    out |-> parseKey(buildMetricKey(m))]
    /\ UnchangedScheduler

NextFn ==
    \/ RoundTripProbe
    \/ DetectProbe
    \/ ClassifyProbe
    \/ ParseKeyProbe
    \/ AggregateProbe

FnSpec == Init /\ [][NextFn]_vars

----------------------------------------------------------------------------
(* The Event that Publish builds from a signal *)

MaxPublishes == 2   \* calls of Publish on one Publisher

CfgServiceName == "telemetry-service"

\* values uuid.NewString() can return; a random (version 4) UUID is taken not
\* to repeat, and is never the ID a detector gave its signal
Uuids == {"uuid-1", "uuid-2", "uuid-3"}
SignalIds == {"", "sig-1"}

NilMap == [k \in {} |-> ""]
Signals ==
    [ID : SignalIds, Type : {"cpu_spike"}, Severity : {"low", "critical"},
     Namespace : {StrEmpty, StrDefault}, Resource : {<<"n", "g", "x">>},
     Message : {"High CPU usage detected"}, Timestamp : {1},
     Metadata : {NilMap, [avg_cpu |-> "95.37"]}]

NewEventSignalId(signal, uuid, source) ==
    [ID |-> signal.ID, Type |-> signal.Type, Severity |-> signal.Severity,
     Namespace |-> signal.Namespace, Resource |-> signal.Resource,
     Message |-> signal.Message, Timestamp |-> signal.Timestamp,
     Metadata |-> signal.Metadata, Source |-> source]

\* event := Event{ID: uuid.NewString(), Type: string(signal.Type), ...,
\* Source: p.source}
NewEvent(signal, uuid, source) ==
    [ID |-> uuid, Type |-> signal.Type, Severity |-> signal.Severity,
     Namespace |-> signal.Namespace, Resource |-> signal.Resource,
     Message |-> signal.Message, Timestamp |-> signal.Timestamp,
     Metadata |-> signal.Metadata, Source |-> source]

\* one more call of Publish: the uuid drawn is one not drawn before
EventProbe ==
    /\ probe.fn \in {"none", "Event"}
    /\ LET calls == IF probe.fn = "none" THEN <<>> ELSE probe.calls
           drawn == IF probe.fn = "none" THEN {} ELSE probe.drawn
       IN /\ Len(calls) < MaxPublishes
          /\ \E signal \in Signals, uuid \in Uuids \ drawn :
                probe' = [fn |-> "Event",
                          calls |-> Append(calls, [signal |-> signal,
                                                   event |-> NewEvent(signal, uuid,
                                                                      CfgServiceName)]),
                          drawn |-> drawn \cup {uuid}]
    /\ UnchangedScheduler

NextEvent == EventProbe

EventSpec == Init /\ [][NextEvent]_vars

----------------------------------------------------------------------------
(* Properties *)

StopReturned == mainPc = "ready" /\ lastCall = "Stop"

\* C1: after Stop() has returned (and until Start() is called again) no
\* goroutine of the scheduler is running and no executeCycle activation is
\* live, so no collect, aggregate, detect or publish step is executing or can
\* execute; also when Stop() cancelled while a cycle was in flight.
C1_NoWorkAfterStop ==
    StopReturned => (\A w \in Workers : ~Running(w)) /\ LiveFrames = {}

C1_Witness ==
    /\ StopReturned
    /\ stopCase = "incycle"
    /\ \E w \in Workers : wpc[w] = "exited"

\* C2: under the fairness of FairOnce (goroutines run, Collect and Publish
\* return), a Stop() that is waiting in wg.Wait() eventually returns.
C2_StopReturns == (mainPc = "waiting") ~> (mainPc = "ready")

C2_Witness ==
    /\ StopReturned
    /\ stopCase = "idle"
    /\ starts = 1
    /\ wpc[1] = "exited"

\* C3: on a scheduler started once at most one executeCycle activation is live
\* at any moment.
C3_OneCycleAtATime == Cardinality(LiveFrames) <= 1

\* a tick arrived while the cycle was still running
C3_Witness ==
    \E f \in FrameIds : Live(f) /\ frames[f].st = "publishing" /\ tick[frames[f].owner]

\* C4: at most one goroutine of the scheduler is running at any time.
C4_OneWorker == Cardinality({w \in Workers : Running(w)}) <= 1

\* C5: a publish that was in flight when cancellation was signalled does not
\* end by that cancellation.
C5_PublishNotAborted ==
    \A f \in FrameIds :
        (frames[f].st = "published" /\ ~frames[f].pre) => frames[f].resp.cause # "canceled"

\* C6: once all collectors are done and nothing was accumulated, the cycle is
\* at the emptiness test or has ended, without aggregation and without any
\* detector evaluation or publish.
C6_EmptyCycleEndsEarly ==
    \A f \in FrameIds :
        (frames[f].st \notin {"free", "collect"} /\ frames[f].all = <<>>) =>
            /\ frames[f].st \in {"check", "ended"}
            /\ ~frames[f].aggregated
            /\ frames[f].evals = <<>>

C6_Witness ==
    \E f \in FrameIds :
        /\ frames[f].st = "ended"
        /\ frames[f].all = <<>>
        /\ Len(frames[f].calls) = NumCollectors
        /\ frames[f].calls[1].r.err
        /\ ~frames[f].calls[2].r.err

\* the results of the collectors that succeeded, concatenated in call order
RECURSIVE ConcatOk(_)
ConcatOk(calls) ==
    IF calls = <<>> THEN <<>>
    ELSE (IF Head(calls).r.err THEN <<>> ELSE Head(calls).r.metrics) \o ConcatOk(Tail(calls))

\* C7: in a cycle the collectors are called once each in registration order,
\* all of them once the collection loop is over, and allMetrics is the
\* concatenation of the results of those that returned no error.
C7_PartialCollection ==
    \A f \in FrameIds : Live(f) =>
        LET fr == frames[f]
        IN /\ \A k \in 1..Len(fr.calls) : fr.calls[k].c = k
           /\ fr.st # "collect" => Len(fr.calls) = NumCollectors
           /\ fr.st = "collect" => Len(fr.calls) = fr.i - 1
           /\ fr.all = ConcatOk(fr.calls)

C7_Witness ==
    \E f \in FrameIds :
        /\ frames[f].st = "check"
        /\ frames[f].calls[1].r.err
        /\ frames[f].calls[1].r.metrics # <<>>
        /\ ~frames[f].calls[2].r.err
        /\ frames[f].all = frames[f].calls[2].r.metrics
        /\ frames[f].all # <<>>

\* C8: a cycle that was aggregated and has run through its detector loop has
\* evaluated every detector once, in registration order, whatever the
\* publishes returned.
C8_AllDetectorsEvaluated ==
    \A f \in FrameIds :
        LET fr == frames[f]
        IN /\ \A k \in 1..Len(fr.evals) : fr.evals[k].d = k
           /\ (fr.aggregated /\ fr.st \in {"finish", "ended"}) =>
                  Len(fr.evals) = NumDetectors

C8_Witness ==
    \E f \in FrameIds :
        /\ frames[f].st = "ended"
        /\ Len(frames[f].evals) = NumDetectors
        /\ frames[f].evals[1].out = "fail"
        /\ frames[f].evals[2].out = "ok"

\* C9: a goroutine of the scheduler exits only after cancellation; after a
\* cycle with a failed collector or publish it is back in its loop, and a
\* buffered tick starts a new cycle.
C9_FailuresContained ==
    \A w \in Workers :
        /\ wpc[w] = "exited" => cancelled
        /\ wpc[w] = "incycle" => FramesOf(w) # {}
        /\ (failedBefore[w] /\ wpc[w] = "select" /\ tick[w]) => ENABLED SelectTick(w)

\* a new cycle runs after a failed one, with no Stop() so far
C9_Witness ==
    \E w \in Workers : failedBefore[w] /\ ~cancelled /\ FramesOf(w) # {}

\* C10: Publish returns nil exactly for a completed exchange with a status in
\* 200..299, whether or not the body parses; a transport failure gives the
\* transport error and any other status the status error with that status.
C10_PublishResult ==
    probe.fn = "Publish" =>
        LET o == probe.in
            r == probe.out
            twoxx == o.kind = "response" /\ o.status \in 200..299
        IN /\ r.err = "nil" <=> twoxx
           /\ o.kind = "transport" => r.err = "transport"
           /\ (o.kind = "response" /\ ~twoxx) => (r.err = "status" /\ r.code = o.status)

C10_Witness ==
    /\ probe.fn = "Publish"
    /\ probe.in.kind = "response"
    /\ probe.in.status = 299
    /\ ~probe.in.json
    /\ probe.out.err = "nil"

C12_OneSignalPerDetector ==
    \A f \in FrameIds :
        LET fr == frames[f]
            inProgress == IF fr.st \in {"publishing", "published"} THEN 1 ELSE 0
        IN /\ Len(fr.pubCalls) <= Len(fr.evals) + inProgress
           /\ Len(fr.pubCalls) <= NumDetectors

\* a finished cycle whose input had two breaching keys
C12_Witness ==
    \E f \in FrameIds :
        /\ frames[f].st = "ended"
        /\ Cardinality(Breaching(frames[f].input, Fixed(DetectorThreshold))) >= 2
        /\ Len(frames[f].pubCalls) = NumDetectors


\* C13: Detect returns a signal exactly when some key that starts with "cpu:"
\* has a non-empty value list whose mean is strictly greater than the
\* threshold; the signal is a cpu_spike whose namespace, resource and
\* severity are those of one such key.
C13_DetectFiresOnBreach ==
    probe.fn = "Detect" =>
        LET ms == probe.in.input.Metrics
            t == probe.in.threshold
            s == probe.out
            breach(k) ==
                /\ Len(k) >= 4
                /\ SubSeq(k, 1, 4) = <<"c", "p", "u", ":">>
                /\ Len(ms[k]) > 0
                /\ SumSeq(ms[k]) > t * Len(ms[k])
        IN /\ s.ok <=> \E k \in DOMAIN ms : breach(k)
           /\ s.ok =>
                 /\ s.Type = "cpu_spike"
                 /\ \E k \in DOMAIN ms :
                       /\ breach(k)
                       /\ <<s.Namespace, s.Resource>> = parseKey(k)
                       /\ s.Severity = ClassifySeverity(average(ms[k]), t)

C13_Witness ==
    /\ probe.fn = "Detect"
    /\ probe.in.threshold = Fixed(CfgCPUThreshold)
    /\ DOMAIN probe.in.input.Metrics = {KeyCpuDefNgx, KeyMemDefNgx}
    /\ probe.in.input.Metrics[KeyCpuDefNgx] = <<9520, 9610, 9480>>
    /\ probe.out.ok
    /\ probe.out.Namespace = <<"d", "e", "f">>
    /\ probe.out.Resource = <<"n", "g", "x">>
    /\ probe.out.Severity = "critical"

\* C14: two calls of Detect on the same input and threshold return the same
\* signal.
C14_DetectDeterministic ==
    probe.fn = "Detect" => probe.out = probe.again

\* C15: for a mean above the threshold t the severity is critical from 1.5 t,
\* high from 1.2 t, medium from 1.1 t and low below 1.1 t.
C15_SeverityBands ==
    probe.fn = "ClassifySeverity" =>
        LET m == probe.in.mean
            t == probe.in.threshold
        IN m > t =>
              probe.out = IF 10 * m >= 15 * t THEN "critical"
                          ELSE IF 10 * m >= 12 * t THEN "high"
                          ELSE IF 10 * m >= 11 * t THEN "medium"
                          ELSE "low"

\* C16: parseKey returns (second part, third part) for a key of exactly three
\* colon-separated parts, ("", second part) for exactly two parts, and
\* ("", "unknown") for any other key.
C16_ParseKey ==
    probe.fn = "parseKey" =>
        LET k == probe.in
            colons == {i \in 1..Len(k) : k[i] = Colon}
            first == CHOOSE i \in colons : \A j \in colons : i <= j
            last == CHOOSE i \in colons : \A j \in colons : j <= i
        IN CASE Cardinality(colons) = 2 ->
                   probe.out = <<SubSeq(k, first + 1, last - 1), SubSeq(k, last + 1, Len(k))>>
             [] Cardinality(colons) = 1 ->
                   probe.out = <<StrEmpty, SubSeq(k, first + 1, Len(k))>>
             [] OTHER -> probe.out = <<StrEmpty, StrUnknown>>

C16_Witness ==
    /\ probe.fn = "parseKey"
    /\ probe.in = <<"a", Colon, Colon, Colon>>
    /\ probe.out = <<StrEmpty, StrUnknown>>

\* C17: the number of distinct keys in the result of AggregateMetrics equals
\* the number of distinct (Type, Namespace, Resource) triples in the input.
C17_KeyPerTriple ==
    probe.fn = "AggregateMetrics" =>
        LET ms == probe.in
            triples == {<<ms[i].Type, ms[i].Namespace, ms[i].Resource>> : i \in 1..Len(ms)}
        IN Cardinality(DOMAIN probe.out.Metrics) = Cardinality(triples)

RECURSIVE ValuesWithKey(_, _)
ValuesWithKey(ms, key) ==
    IF ms = <<>> THEN <<>>
    ELSE (IF buildMetricKey(Head(ms)) = key THEN <<Head(ms).Value>> ELSE <<>>)
             \o ValuesWithKey(Tail(ms), key)

RECURSIVE TotalLen(_, _)
TotalLen(f, keys) ==
    IF keys = {} THEN 0
    ELSE LET k == CHOOSE x \in keys : TRUE
         IN Len(f[k]) + TotalLen(f, keys \ {k})

\* C18: the values stored under a key are the values of the input metrics with
\* that key, in input order; the lengths add up to the input length, no
\* stored sequence is empty, and an empty input gives empty maps that are
\* both allocated.
C18_ValuesInOrder ==
    probe.fn = "AggregateMetrics" =>
        LET ms == probe.in
            out == probe.out
        IN /\ DOMAIN out.Metrics = {buildMetricKey(ms[i]) : i \in 1..Len(ms)}
           /\ \A k \in DOMAIN out.Metrics :
                 /\ out.Metrics[k] = ValuesWithKey(ms, k)
                 /\ out.Metrics[k] # <<>>
           /\ TotalLen(out.Metrics, DOMAIN out.Metrics) = Len(ms)
           /\ out.MetricsMade /\ out.LabelsMade
           /\ ms = <<>> => DOMAIN out.Metrics = {} /\ DOMAIN out.Labels = {}

C18_Witness ==
    /\ probe.fn = "AggregateMetrics"
    /\ Len(probe.in) = 3
    /\ buildMetricKey(probe.in[1]) = buildMetricKey(probe.in[3])
    /\ buildMetricKey(probe.in[1]) # buildMetricKey(probe.in[2])
    /\ probe.in[1].Value = 2
    /\ probe.in[3].Value = 1
    /\ probe.out.Metrics[buildMetricKey(probe.in[1])] = <<2, 1>>

\* C19: the Labels of the result have exactly the label keys of the input
\* metrics, each with the value of the last metric that carries it.
C19_LabelsLastWins ==
    probe.fn = "AggregateMetrics" =>
        LET ms == probe.in
            out == probe.out
            carriers(l) == {i \in 1..Len(ms) : l \in DOMAIN ms[i].Labels}
            lastOf(l) == CHOOSE i \in carriers(l) : \A j \in carriers(l) : j <= i
        IN /\ DOMAIN out.Labels = UNION {DOMAIN ms[i].Labels : i \in 1..Len(ms)}
           /\ \A l \in DOMAIN out.Labels : out.Labels[l] = ms[lastOf(l)].Labels[l]

C19_Witness ==
    /\ probe.fn = "AggregateMetrics"
    /\ Len(probe.in) = 3
    /\ probe.in[1].Labels = [app |-> "y", tier |-> "z"]
    /\ probe.in[2].Labels = [app |-> "x"]
    /\ DOMAIN probe.in[3].Labels = {}
    /\ probe.out.Labels = [app |-> "x", tier |-> "z"]

\* C20: the registered detector uses the configured threshold
\* (Config.CPUThreshold): a cycle whose aggregated input has a cpu key with a
\* mean above the configured threshold, and whose detectors have all been
\* evaluated, has published a signal.
C20_ConfiguredThreshold ==
    \A f \in FrameIds :
        LET fr == frames[f]
        IN (/\ fr.aggregated
            /\ Len(fr.evals) = NumDetectors
            /\ Breaching(fr.input, Fixed(CfgCPUThreshold)) # {})
               => Len(fr.pubCalls) > 0

\* C21: the Event of a Publish call copies the signal's type, severity,
\* namespace, resource, message, timestamp and metadata, has the configured
\* service name as source, and has an id of its own: not the signal's ID, and
\* different from the id of every other Publish call.
C21_EventOfSignal ==
    probe.fn = "Event" =>
        /\ \A i \in 1..Len(probe.calls) :
              LET sg == probe.calls[i].signal
                  ev == probe.calls[i].event
              IN /\ ev.Type = sg.Type
                 /\ ev.Severity = sg.Severity
                 /\ ev.Namespace = sg.Namespace
                 /\ ev.Resource = sg.Resource
                 /\ ev.Message = sg.Message
                 /\ ev.Timestamp = sg.Timestamp
                 /\ ev.Metadata = sg.Metadata
                 /\ ev.Source = CfgServiceName
                 /\ ev.ID # sg.ID
        /\ \A i, j \in 1..Len(probe.calls) :
              i # j => probe.calls[i].event.ID # probe.calls[j].event.ID

\* two Publish calls for the same signal
C21_Witness ==
    /\ probe.fn = "Event"
    /\ Len(probe.calls) = 2
    /\ probe.calls[1].signal = probe.calls[2].signal
    /\ probe.calls[1].signal.ID = "sig-1"
    /\ probe.calls[1].event.ID # probe.calls[2].event.ID

\* C22: with a threshold of 50 a mean of 80 is classified high and a mean of
\* 95 is classified critical.
C22_ReadmeExample ==
    (probe.fn = "ClassifySeverity" /\ probe.in.threshold = Fixed(CfgCPUThreshold)) =>
        /\ probe.in.mean = Fixed(80) => probe.out = "high"
        /\ probe.in.mean = Fixed(95) => probe.out = "critical"

\* C23: in a cycle that has run through its detector loop, every detector
\* that matched has exactly one Publish call and exactly one report of that
\* call (a published log or a failure log); a detector that did not match has
\* neither; and at no time are there more reports than calls.
C23_NoSilentDrop ==
    \A f \in FrameIds :
        LET fr == frames[f]
            matched == Breaching(fr.input, Fixed(DetectorThreshold)) # {}
            calls(d) == {k \in 1..Len(fr.pubCalls) : fr.pubCalls[k] = d}
            reports(d) == {k \in 1..Len(fr.evals) :
                              fr.evals[k].d = d /\ fr.evals[k].out \in {"ok", "fail"}}
        IN /\ \A d \in 1..NumDetectors : Cardinality(reports(d)) <= Cardinality(calls(d))
           /\ (fr.aggregated /\ fr.st \in {"finish", "ended"}) =>
                 \A d \in 1..NumDetectors :
                    IF matched
                    THEN Cardinality(calls(d)) = 1 /\ Cardinality(reports(d)) = 1
                    ELSE calls(d) = {} /\ reports(d) = {}

\* a cycle ended with one publish failed and one published
C23_Witness ==
    \E f \in FrameIds :
        /\ frames[f].st = "ended"
        /\ Len(frames[f].pubCalls) = NumDetectors
        /\ \E k \in 1..Len(frames[f].evals) : frames[f].evals[k].out = "fail"
        /\ \E k \in 1..Len(frames[f].evals) : frames[f].evals[k].out = "ok"

\* C24: the steps of a cycle are sequential: every collector has been called,
\* in order, before the cycle leaves its collection loop; nothing is detected
\* or published before aggregation; detectors are evaluated in registration
\* order; and while the Publish for detector k has not returned and been
\* handled, detector k + 1 has not been evaluated.
C24_Sequential ==
    \A f \in FrameIds :
        LET fr == frames[f]
        IN /\ \A k \in 1..Len(fr.calls) : fr.calls[k].c = k
           /\ fr.st \notin {"free", "collect"} => Len(fr.calls) = NumCollectors
           /\ fr.st = "collect" => ~fr.aggregated
           /\ (Len(fr.evals) > 0 \/ Len(fr.pubCalls) > 0) => fr.aggregated
           /\ \A k \in 1..Len(fr.evals) : fr.evals[k].d = k
           /\ fr.st \in {"publishing", "published"} =>
                 /\ Len(fr.pubCalls) > 0
                 /\ fr.pubCalls[Len(fr.pubCalls)] = Len(fr.evals) + 1
                 /\ fr.j = Len(fr.evals) + 1
           /\ fr.st = "detect" =>
                 /\ fr.j = Len(fr.evals) + 1
                 /\ \A k \in 1..Len(fr.pubCalls) : fr.pubCalls[k] <= Len(fr.evals)

\* the second detector is about to be evaluated after the first one's Publish
C24_Witness ==
    \E f \in FrameIds :
        /\ frames[f].st = "detect"
        /\ frames[f].j = 2
        /\ frames[f].pubCalls = <<1>>
        /\ Len(frames[f].evals) = 1
        /\ frames[f].evals[1].out \in {"ok", "fail"}

\* C25: a tick that fires while a cycle is in progress is dropped, not queued.
\* The tick that started a cycle was received from ticker.C, so a tick held
\* by ticker.C during the cycle fired during it: when the cycle returns to the
\* select of run(), ticker.C holds no tick that could start the next cycle.
C25_TicksDropped ==
    [][\A w \in Workers :
          (wpc[w] = "incycle" /\ wpc'[w] = "select") => ~tick'[w]]_vars

\* C26: a cycle starts with nothing accumulated; the SignalInput its detectors
\* read is the aggregation of exactly the metrics its own collector calls
\* returned without error; and no activation record outlives its cycle.
C26_FreshAggregation ==
    \A f \in FrameIds :
        LET fr == frames[f]
        IN /\ ~Live(f) => fr = FreeFrame
           /\ (fr.st = "collect" /\ fr.calls = <<>>) =>
                 fr.all = <<>> /\ fr.input = EmptyInput /\ fr.evals = <<>> /\ fr.pubCalls = <<>>
           /\ ~fr.aggregated => fr.input = EmptyInput
           /\ fr.aggregated => fr.input = AggregateMetrics(ConcatOk(fr.calls))

\* a later cycle of a worker, whose second detector reads an input made of
\* the second collector's cold sample only
C26_Witness ==
    \E f \in FrameIds :
        /\ frames[f].st = "detect"
        /\ frames[f].j = 2
        /\ failedBefore[frames[f].owner]
        /\ DOMAIN frames[f].input.Metrics = {buildMetricKey(Sample(2, 100))}
        /\ frames[f].input.Metrics[buildMetricKey(Sample(2, 100))] = <<Fixed(100)>>

\* C27: once Stop() has cancelled the context, the worker enters no new
\* cycle: no step takes a worker from its select into executeCycle while the
\* context is cancelled.
C27_NoCycleAfterCancel ==
    [][\A w \in Workers :
          (cancelled /\ wpc[w] = "select") => wpc'[w] # "incycle"]_vars

\* C28: a cycle that was in progress when Stop() cancelled the context runs
\* to its end: while it is live its worker is inside executeCycle and Stop()
\* is still waiting; it ends only with every collector called, and, unless
\* nothing was collected, with the aggregation made, every detector
\* evaluated and a Publish call made for every detector that matched.
C28_CycleRunsToEnd ==
    \A f \in FrameIds :
        LET fr == frames[f]
        IN (Live(f) /\ fr.hit) =>
              /\ wpc[fr.owner] = "incycle"
              /\ mainPc = "waiting"
              /\ fr.st \in {"finish", "ended"} =>
                    /\ Len(fr.calls) = NumCollectors
                    /\ fr.aggregated <=> ConcatOk(fr.calls) # <<>>
                    /\ fr.aggregated =>
                          /\ Len(fr.evals) = NumDetectors
                          /\ Breaching(fr.input, Fixed(DetectorThreshold)) # {} =>
                                Len(fr.pubCalls) = NumDetectors

\* a cycle that was cancelled while in progress ended with both detectors
\* evaluated and both publishes made and failed, Stop() still waiting
C28_Witness ==
    \E f \in FrameIds :
        /\ frames[f].hit
        /\ frames[f].st = "ended"
        /\ Len(frames[f].pubCalls) = NumDetectors
        /\ Len(frames[f].evals) = NumDetectors
        /\ \A k \in 1..Len(frames[f].evals) : frames[f].evals[k].out = "fail"
        /\ mainPc = "waiting"

\* C29: the cancellation made by Stop() is permanent; under the fairness of
\* FairOnce a worker that runs on the cancelled context, such as one spawned
\* by a Start() that follows a Stop(), eventually exits; and a Stop() that
\* finds no worker running (never started, or stopped before) has nothing to
\* wait for.
C29_NoRestart ==
    /\ [][cancelled => cancelled']_vars
    /\ \A w \in Workers : (cancelled /\ Running(w)) ~> ~Running(w)
    /\ []((mainPc = "waiting" /\ \A w \in Workers : ~Running(w)) => ENABLED StopReturn)

\* Stop() before Start(): the worker spawned afterwards has exited with no
\* further Stop()
C29_Witness ==
    /\ stops = 1
    /\ stopCase = "noworker"
    /\ starts = 1
    /\ wpc[1] = "exited"
    /\ mainPc = "ready"

\* C30: for every Metric m, parseKey(buildMetricKey(m)) is
\* (m.Namespace, m.Resource).
C30_KeyRoundTrip ==
    probe.fn = "parseKey(buildMetricKey)" =>
        probe.out = <<probe.in.Namespace, probe.in.Resource>>
====
